---------------------------- MODULE Spec2Model ----------------------------
(***************************************************************************)
(* Retrieval store of mcp_server/rag_store.py: the similarity scorer, the  *)
(* durable (SQLite) and ephemeral (in-memory) document stores, the         *)
(* composite store and the store factory, as a state machine whose         *)
(* processes are the upsert and query calls in flight.                     *)
(*                                                                         *)
(* Strings that are taken apart by the program (store names, document ids) *)
(* are sequences of tokens; the token ":" is the one-character string ":"  *)
(* and every other token is a run of characters holding no ':'.            *)
(* A score is the exact real dot / sqrt(den2), kept as the pair            *)
(* (num, den2) and compared exactly.                                       *)
(***************************************************************************)
EXTENDS Integers, Sequences, FiniteSets, TLC

\* ------------------------------------------------------------------ bounds
\* Documents one behaviour inserts at most, over all stores: in the
\* specification of the queries, of the upserts, of the concurrent calls.
MaxDocsQuery == 3
MaxDocsUpsert == 2
MaxDocsConc == 2
\* Largest `limit` a query is called with.
MaxLimit == 2
\* Calls in flight at once in the concurrent specification.
MaxInFlight == 2
\* Longest embedding vector, and documents inserted at most, in the
\* specification of the similarity scorer.
MaxDim == 2
MaxDocsCosine == 1
\* Documents inserted at most under fair scheduling.
MaxDocsLive == 1

\* ------------------------------------------------------- optional values
\* Python's None and a present value.
None == [some |-> FALSE, val |-> <<>>]
Some(x) == [some |-> TRUE, val |-> x]
\* Python truthiness of an Optional[list] / Optional[str]: None and the
\* empty list (the empty string) are falsy.
Truthy(o) == o.some /\ o.val # <<>>

\* ------------------------------------------------------------ sequences
Range(s) == {s[i] : i \in DOMAIN s}
Take(s, n) == IF n >= Len(s) THEN s ELSE SubSeq(s, 1, n)
Max0(a, b) == IF a >= b THEN a ELSE b
Min0(a, b) == IF a <= b THEN a ELSE b

\* ------------------------------------------------------ _cosine_similarity
RECURSIVE Dot(_, _)
Dot(a, b) == IF a = <<>> THEN 0 ELSE Head(a) * Head(b) + Dot(Tail(a), Tail(b))
NormSq(a) == Dot(a, a)

ZeroScore == [err |-> FALSE, num |-> 0, den2 |-> 1]
MismatchScore == [err |-> TRUE, num |-> 0, den2 |-> 1]

\* (mutant: the lengths are compared before the empty vectors are let
\* through)
CosineLengthFirst(a, b) ==
    IF Len(a) # Len(b) THEN MismatchScore
    ELSE IF a = <<>> \/ b = <<>> THEN ZeroScore
    ELSE IF NormSq(a) = 0 \/ NormSq(b) = 0 THEN ZeroScore
    ELSE [err |-> FALSE, num |-> Dot(a, b), den2 |-> NormSq(a) * NormSq(b)]

\* (mutant: the dot product is divided by the first vector's squared norm)
CosineByFirstNorm(a, b) ==
    IF a = <<>> \/ b = <<>> THEN ZeroScore
    ELSE IF Len(a) # Len(b) THEN MismatchScore
    ELSE IF NormSq(a) = 0 \/ NormSq(b) = 0 THEN ZeroScore
    ELSE [err |-> FALSE, num |-> Dot(a, b), den2 |-> NormSq(a) * NormSq(a)]

\* The exact value is num / sqrt(den2); err is the RAGError
\* "Embedding dimensionality mismatch".
CosineSimilarity(a, b) ==
    IF a = <<>> \/ b = <<>> THEN ZeroScore
    ELSE IF Len(a) # Len(b) THEN MismatchScore
    ELSE IF NormSq(a) = 0 \/ NormSq(b) = 0 THEN ZeroScore
    ELSE [err |-> FALSE, num |-> Dot(a, b), den2 |-> NormSq(a) * NormSq(b)]

\* Order of the reals num / sqrt(den2): compare the signed squares.
Sgn(x) == IF x > 0 THEN 1 ELSE IF x < 0 THEN -1 ELSE 0
ScoreLess(s, t) ==
    Sgn(s.num) * s.num * s.num * t.den2 < Sgn(t.num) * t.num * t.num * s.den2
ScoreEq(s, t) == ~ScoreLess(s, t) /\ ~ScoreLess(t, s)

\* ----------------------------------- docs.sort(key=score, reverse=True)
\* list.sort is stable, also with reverse=True: items of equal score keep
\* their order.  Insert d after every item whose score is >= d's.
\* (mutant: a sort that is not stable: d goes before the items of equal score)
RECURSIVE InsertByScoreUnstable(_, _)
InsertByScoreUnstable(sorted, d) ==
    IF sorted = <<>> THEN <<d>>
    ELSE IF ~ScoreLess(d.score, Head(sorted).score) THEN <<d>> \o sorted
    ELSE <<Head(sorted)>> \o InsertByScoreUnstable(Tail(sorted), d)

RECURSIVE InsertByScore(_, _)
InsertByScore(sorted, d) ==
    IF sorted = <<>> THEN <<d>>
    ELSE IF ScoreLess(Head(sorted).score, d.score) THEN <<d>> \o sorted
    ELSE <<Head(sorted)>> \o InsertByScore(Tail(sorted), d)

RECURSIVE SortDesc(_)
SortDesc(ds) ==
    IF ds = <<>> THEN <<>>
    ELSE InsertByScore(SortDesc(SubSeq(ds, 1, Len(ds) - 1)), ds[Len(ds)])

\* docs[: max(0, limit)]
Truncate(ds, limit) == Take(ds, Max0(0, limit))

\* ------------------------------------------------------------- strings
Digits == <<"0", "1", "2", "3", "4", "5", "6", "7", "8", "9">>
\* str(n) for an integer n >= 0: its decimal digits.
RECURSIVE Str(_)
Str(n) == IF n < 10 THEN <<Digits[n + 1]>> ELSE Str(n \div 10) \o <<Digits[(n % 10) + 1]>>

Colon == ":"
\* text.split(":", 1)[0]: the text before the first ':' (all of it when
\* there is none).
RECURSIVE BeforeFirstColon(_)
BeforeFirstColon(s) ==
    IF s = <<>> \/ Head(s) = Colon THEN <<>>
    ELSE <<Head(s)>> \o BeforeFirstColon(Tail(s))
HasColon(s) == Colon \in Range(s)

\* f"{name}:{doc_id}"
QualifiedId(name, docId) == name \o <<Colon>> \o docId

\* str(uuid.uuid4()): 32 hex digits and dashes, never a ':'.  The k-th
\* value drawn is taken to differ from every value drawn before it.
UuidStr(k) == <<"uuid">> \o Str(k)

\* ------------------------------------------------------------------ dict
\* A Python dict: its (key, value) pairs in insertion order.
DictKeys(d) == [i \in DOMAIN d |-> d[i].key]
DictValues(d) == [i \in DOMAIN d |-> d[i].val]
DictHas(d, k) == \E i \in DOMAIN d : d[i].key = k
\* d.get(k) for a key the dict holds.
DictGet(d, k) == d[CHOOSE i \in DOMAIN d : d[i].key = k].val
\* d[k] = v: an existing key keeps its place and takes the new value.
DictSet(d, k, v) ==
    IF DictHas(d, k)
    THEN [i \in DOMAIN d |-> IF d[i].key = k THEN [key |-> k, val |-> v] ELSE d[i]]
    ELSE Append(d, [key |-> k, val |-> v])
\* {key(x): x for x in xs}, values being the positions in xs.
RECURSIVE DictOfNames(_, _)
DictOfNames(names, n) ==
    IF n = 0 THEN <<>>
    ELSE DictSet(DictOfNames(names, n - 1), names[n], n)

\* ---------------------------------------------------------------- errors
NoError == [cls |-> "", msg |-> ""]
RAGError(msg) == [cls |-> "RAGError", msg |-> msg]

\* ------------------------------------------------------- store objects
\* SQLiteRAGStore.__init__: name or f"sqlite:{path}".
SQLiteRAGStore(path, name) ==
    [kind |-> "sqlite",
     name |-> IF Truthy(name) THEN name.val ELSE <<"sqlite", Colon>> \o path,
     path |-> path]
\* InMemoryRAGStore.__init__.
InMemoryRAGStore(name) == [kind |-> "memory", name |-> name, path |-> <<>>]

\* The top-level store handed to the callers.
NoTop(err) == [kind |-> "error", obj |-> 0, stores |-> <<>>, default |-> 0, err |-> err]
LeafTop(o) == [kind |-> "leaf", obj |-> o, stores |-> <<>>, default |-> 0, err |-> NoError]

\* (mutant: self._default = self._stores[stores[0].name], the last object of
\* the first name)
CompositeDefaultByName(objs) ==
    IF objs = <<>> THEN NoTop(RAGError("CompositeRAGStore requires at least one store"))
    ELSE LET d == DictOfNames([i \in DOMAIN objs |-> objs[i].name], Len(objs)) IN
         [kind |-> "composite", obj |-> 0, stores |-> d,
          default |-> DictGet(d, objs[1].name), err |-> NoError]

\* (mutant: the empty sequence is accepted)
CompositeAcceptsEmpty(objs) ==
    [kind |-> "composite", obj |-> 0,
     stores |-> DictOfNames([i \in DOMAIN objs |-> objs[i].name], Len(objs)),
     default |-> IF objs = <<>> THEN 0 ELSE 1, err |-> NoError]

\* CompositeRAGStore.__init__ over the store objects objs[1..n]: _stores
\* maps each name to the position of the (last) object of that name.
CompositeRAGStore(objs) ==
    IF objs = <<>> THEN NoTop(RAGError("CompositeRAGStore requires at least one store"))
    ELSE [kind |-> "composite", obj |-> 0,
          stores |-> DictOfNames([i \in DOMAIN objs |-> objs[i].name], Len(objs)),
          default |-> 1, err |-> NoError]

\* str.lower() on the type names the configurations use.
Lower(t) == IF t = "SQLite" THEN "sqlite" ELSE IF t = "Memory" THEN "memory" ELSE t

\* One iteration of the loop of build_default_store over entry number idx
\* (0-based): acc is [err, objs].
FactoryEntry(acc, entry, idx) ==
    LET kind == Lower(IF entry.type.some THEN entry.type.val ELSE "sqlite") IN
    IF acc.err # NoError THEN acc
    ELSE IF ~entry.isObj THEN [acc EXCEPT !.err = RAGError("Each RAG source must be an object")]
    ELSE IF kind = "sqlite" THEN
        IF ~Truthy(entry.path)
        THEN [acc EXCEPT !.err = RAGError("sqlite RAG source requires 'path'")]
        ELSE [acc EXCEPT !.objs = Append(@, SQLiteRAGStore(entry.path.val, entry.name))]
    ELSE IF kind = "memory" THEN
        [acc EXCEPT !.objs = Append(@, InMemoryRAGStore(
            IF Truthy(entry.name) THEN entry.name.val ELSE <<"memory", Colon>> \o Str(idx)))]
    ELSE [acc EXCEPT !.err = RAGError("Unsupported RAG source type")]

RECURSIVE FactoryLoop(_, _)
FactoryLoop(entries, n) ==
    IF n = 0 THEN [err |-> NoError, objs |-> <<>>]
    ELSE FactoryEntry(FactoryLoop(entries, n - 1), entries[n], n - 1)

DefaultDbPath == <<"rag_store.db">>

\* build_default_store with RAG_SOURCES = raw: the store objects created
\* and the top-level store returned (or the error raised).
BuildDefaultStore(raw) ==
    IF raw.kind = "unset" THEN
        [objs |-> <<SQLiteRAGStore(DefaultDbPath, None)>>, top |-> LeafTop(1)]
    ELSE IF raw.kind = "invalid_json" THEN
        [objs |-> <<>>, top |-> NoTop(RAGError("RAG_SOURCES must be valid JSON"))]
    ELSE IF raw.kind = "not_array" THEN
        [objs |-> <<>>, top |-> NoTop(RAGError("RAG_SOURCES must be a JSON array"))]
    ELSE LET built == FactoryLoop(raw.entries, Len(raw.entries)) IN
        IF built.err # NoError THEN [objs |-> <<>>, top |-> NoTop(built.err)]
        ELSE IF built.objs = <<>>
        THEN [objs |-> <<>>, top |-> NoTop(RAGError("RAG_SOURCES did not yield any stores"))]
        ELSE IF Len(built.objs) = 1 THEN [objs |-> built.objs, top |-> LeafTop(1)]
        ELSE [objs |-> built.objs, top |-> CompositeRAGStore(built.objs)]

\* A construction: the factory on a RAG_SOURCES value, or a composite built
\* directly over store objects, as the tests build it.
Construct(how) ==
    IF how.route = "factory" THEN BuildDefaultStore(how.raw)
    ELSE [objs |-> how.objs, top |-> CompositeRAGStore(how.objs)]

\* ----------------------------------------------------------------- state
VARIABLES
    config, \* what the store was built from: RAG_SOURCES, or a sequence of stores
    objs,   \* the leaf store objects, in the order they were created
    top,    \* the top-level store: a leaf, a composite, or the construction error
    docs,   \* per store object: the rag_documents rows / the _docs dict
    lock,   \* per store object: the call holding self._lock (0: free)
    uuids,  \* how many uuid4() values were drawn
    calls,  \* per slot: the call in flight (its arguments, position, result)
    issued  \* per store object: what its successful upserts returned, in order

vars == <<config, objs, top, docs, lock, uuids, calls, issued>>

Slots == 1 .. MaxInFlight

\* json.dumps(list(embedding)) and json.loads: the TEXT column holds the
\* JSON array, which parses back to the list it was written from.
JsonDumps(vec) == [json |-> vec]
JsonLoads(text) == text.json

Idle ==
    [op |-> "idle", pc |-> "idle",
     source |-> None, content |-> "", store |-> None,
     text |-> "", limit |-> 0, embedding |-> None, stores |-> None,
     tgt |-> 0, vec |-> <<>>, rowid |-> 0,
     sel |-> <<>>, i |-> 0, qvec |-> <<>>, lvec |-> <<>>, rows |-> <<>>, acc |-> <<>>,
     res |-> None, err |-> NoError,
     \* bookkeeping: embedding calls issued, member queries issued, the scans
     \* the call made, the documents of every store when the call began
     nEmbed |-> 0, nLeaf |-> 0, seen |-> <<>>, pre |-> <<>>,
     \* bookkeeping: what the scanned store held when the scan took its lock
     snap |-> <<>>]

Fail(r, err) == [r EXCEPT !.pc = "done", !.err = err]
Done(r, result) == [r EXCEPT !.pc = "done", !.res = Some(result)]

TotalDocs(D) ==
    LET RECURSIVE Sum(_)
        Sum(n) == IF n = 0 THEN 0 ELSE Len(D[n]) + Sum(n - 1)
    IN Sum(Len(objs))

\* Upserts that were started and have not inserted their row yet.
PendingInserts ==
    Cardinality({c \in Slots : calls[c].op = "upsert"
                               /\ calls[c].pc \in {"u_embed", "ins_wait", "ins_in"}})

\* ------------------------------------------------------------ leaf upsert
\* AUTOINCREMENT: one more than the largest rowid the table has held (rows
\* are never deleted).
NextRowId(rows) ==
    IF rows = <<>> THEN 1
    ELSE 1 + (CHOOSE m \in {rows[i].id : i \in DOMAIN rows} :
                 \A i \in DOMAIN rows : rows[i].id <= m)

\* (mutant: INSERT OR REPLACE keyed by source, a true upsert)
InsertOrReplaceRow(rows, source, content, vectorJson) ==
    IF \E i \in DOMAIN rows : rows[i].source = source
    THEN [i \in DOMAIN rows |->
            IF rows[i].source = source
            THEN [rows[i] EXCEPT !.content = content, !.embedding = vectorJson]
            ELSE rows[i]]
    ELSE Append(rows, [id |-> NextRowId(rows), source |-> source, content |-> content,
                       embedding |-> vectorJson])

\* INSERT INTO rag_documents (source, content, embedding) VALUES (?, ?, ?)
InsertRow(rows, source, content, vectorJson) ==
    Append(rows, [id |-> NextRowId(rows), source |-> source, content |-> content,
                  embedding |-> vectorJson])

\* self._docs[doc_id] = {"source": .., "content": .., "embedding": list(embedding)}
MemoryPut(d, docId, source, content, embedding) ==
    DictSet(d, docId, [source |-> source, content |-> content, embedding |-> embedding])

\* The id an upsert call returns: the leaf's id, qualified by the target's
\* name when the call went through the composite.
UpsertResult(r, docId) ==
    IF top.kind = "composite" THEN QualifiedId(objs[r.tgt].name, docId) ELSE docId

\* Bookkeeping: the id an upsert on store r.tgt handed to its caller.
Issue(r, id) ==
    [issued EXCEPT ![r.tgt] = Append(@, [id |-> id, source |-> r.source, content |-> r.content])]

\* (mutant: the connection's last inserted rowid, read after the lock was
\* released)
LastRowIdOfConnection(r, D) == NextRowId(D[r.tgt]) - 1

\* int(cur.lastrowid), read from the call's own cursor.
LastRowId(r, D) == r.rowid

\* ------------------------------------------------------------- leaf query
\* What a scan yields per document: its id as a string, its fields and its
\* embedding as a list.
SqliteItems(rows) ==
    [i \in DOMAIN rows |->
        [id |-> Str(rows[i].id), source |-> rows[i].source, content |-> rows[i].content,
         vec |-> JsonLoads(rows[i].embedding)]]
MemoryItems(d) ==
    [i \in DOMAIN d |->
        [id |-> d[i].key, source |-> d[i].val.source, content |-> d[i].val.content,
         vec |-> d[i].val.embedding]]
StoreItems(o, D) == IF objs[o].kind = "sqlite" THEN SqliteItems(D[o]) ELSE MemoryItems(D[o])

RAGDocument(id, content, score, source, store) ==
    [id |-> id, content |-> content, score |-> score, source |-> source, store |-> store]

\* The scoring loop of a leaf query.
ScoreItems(name, queryVec, items) ==
    [i \in DOMAIN items |->
        RAGDocument(items[i].id, items[i].content,
                    CosineSimilarity(queryVec, items[i].vec), items[i].source, name)]

\* The leaf query after its scan: the error _cosine_similarity raised, or
\* the documents sorted and cut to the limit.
LeafResult(name, queryVec, items, limit) ==
    LET scored == ScoreItems(name, queryVec, items) IN
    IF \E i \in DOMAIN scored : scored[i].score.err
    THEN [err |-> RAGError("Embedding dimensionality mismatch"), docs |-> <<>>]
    ELSE [err |-> NoError, docs |-> Truncate(SortDesc(scored), limit)]

\* The composite's copy of a member's result, its id qualified.
Requalify(name, ds) ==
    [i \in DOMAIN ds |->
        RAGDocument(QualifiedId(name, ds[i].id), ds[i].content, ds[i].score,
                    ds[i].source, name)]

\* The final sort and cut of the composite query.
MergeResults(acc, limit) == Truncate(SortDesc(acc), limit)

\* (mutant: names that are no members are skipped instead of refused)
ResolveSelectionSkipUnknown(stores) ==
    IF Truthy(stores) THEN
        LET known == SelectSeq(stores.val, LAMBDA n : DictHas(top.stores, n)) IN
        [err |-> NoError, sel |-> [k \in DOMAIN known |-> DictGet(top.stores, known[k])]]
    ELSE [err |-> NoError, sel |-> DictValues(top.stores)]

\* The member objects a composite query selects, or the unknown name.
ResolveSelection(stores) ==
    IF Truthy(stores) THEN
        IF \E k \in DOMAIN stores.val : ~DictHas(top.stores, stores.val[k])
        THEN [err |-> RAGError("Unknown store"), sel |-> <<>>]
        ELSE [err |-> NoError,
              sel |-> [k \in DOMAIN stores.val |-> DictGet(top.stores, stores.val[k])]]
    ELSE [err |-> NoError, sel |-> DictValues(top.stores)]

\* (mutant: the name is checked, but the document goes to the default store)
ResolveTargetAlwaysDefault(store) ==
    IF ~store.some THEN top.default
    ELSE IF DictHas(top.stores, store.val) THEN top.default
    ELSE 0

\* (mutant: self._stores.get(store, self._default))
ResolveTargetFallback(store) ==
    IF ~store.some THEN top.default
    ELSE IF DictHas(top.stores, store.val) THEN DictGet(top.stores, store.val)
    ELSE top.default

\* The target object of a composite upsert (0: None).
ResolveTarget(store) ==
    IF ~store.some THEN top.default
    ELSE IF DictHas(top.stores, store.val) THEN DictGet(top.stores, store.val)
    ELSE 0

\* A query coroutine runs on the event loop until it suspends: on an
\* embedding call (pc lq_embed, q_embed) or on the worker thread of a SQLite
\* scan (pc fetch_wait).  A scan of an in-memory store does not suspend.
RECURSIVE LeafBegin(_, _, _, _), LeafScan(_, _), LeafFinish(_, _, _), CompositeLoop(_, _)

\* store.query(text, limit, embedding) on leaf o, up to its suspension:
\* query_vec = embedding or await self._embedder.embed(text).
LeafBegin(r, o, embedding, D) ==
    IF Truthy(embedding) THEN LeafScan([r EXCEPT !.tgt = o, !.lvec = embedding.val], D)
    ELSE [r EXCEPT !.tgt = o, !.pc = "lq_embed", !.nEmbed = @ + 1]

\* The scan of leaf r.tgt, once the query vector r.lvec is known.
LeafScan(r, D) ==
    IF objs[r.tgt].kind = "sqlite" THEN [r EXCEPT !.pc = "fetch_wait"]
    ELSE LeafFinish([r EXCEPT !.snap = D[r.tgt]], MemoryItems(D[r.tgt]), D)

\* (mutant: the composite skips a member whose query failed and goes on with
\* the next one)
LeafFinishBestEffort(r, items, D) ==
    LET out == LeafResult(objs[r.tgt].name, r.lvec, items, r.limit)
        r1 == [r EXCEPT !.seen = Append(@, [obj |-> r.tgt, vec |-> r.lvec, items |-> items,
                                            err |-> out.err, docs |-> out.docs,
                                            snap |-> r.snap]),
                        !.snap = <<>>]
    IN
    IF top.kind = "leaf"
    THEN IF out.err # NoError THEN Fail(r1, out.err) ELSE Done(r1, out.docs)
    ELSE CompositeLoop([r1 EXCEPT !.acc = @ \o Requalify(objs[r.tgt].name, out.docs),
                                  !.i = @ + 1], D)

\* The leaf query from its scan on, and what its caller does with the result.
LeafFinish(r, items, D) ==
    LET out == LeafResult(objs[r.tgt].name, r.lvec, items, r.limit)
        r1 == [r EXCEPT !.seen = Append(@, [obj |-> r.tgt, vec |-> r.lvec, items |-> items,
                                            err |-> out.err, docs |-> out.docs,
                                            snap |-> r.snap]),
                        !.snap = <<>>]
    IN
    IF out.err # NoError THEN Fail(r1, out.err)
    ELSE IF top.kind = "leaf" THEN Done(r1, out.docs)
    ELSE CompositeLoop([r1 EXCEPT !.acc = @ \o Requalify(objs[r.tgt].name, out.docs),
                                  !.i = @ + 1], D)

\* (mutant: every member is scanned as it was when the query began, a
\* snapshot across the stores)
CompositeLoopSnapshot(r, D) ==
    IF r.i > Len(r.sel) THEN Done(r, MergeResults(r.acc, r.limit))
    ELSE LeafBegin([r EXCEPT !.nLeaf = @ + 1], r.sel[r.i], Some(r.qvec), r.pre)

\* for store in selected: ... ; then the merge.
CompositeLoop(r, D) ==
    IF r.i > Len(r.sel) THEN Done(r, MergeResults(r.acc, r.limit))
    ELSE LeafBegin([r EXCEPT !.nLeaf = @ + 1], r.sel[r.i], Some(r.qvec), D)

\* ---------------------------------------------------------------- actions
\* Every action takes the input sets of the specification it is used in:
\* dom.sources, dom.contents, dom.upStores (upsert arguments), dom.texts,
\* dom.limits, dom.embArgs, dom.storeArgs (query arguments), dom.upVectors,
\* dom.qVectors and dom.embedErrors (what the embedding provider answers to
\* an upsert, to a query, and raises), dom.inflight (calls
\* in flight at once), dom.maxDocs (documents inserted at most) and
\* dom.constructions (how the store was built).

Active == {c \in Slots : calls[c].op # "idle"}
\* Slots carry no meaning: a call takes the lowest free one.
FreeSlot(c, dom) ==
    /\ calls[c].op = "idle"
    /\ \A b \in Slots : b < c => calls[b].op # "idle"
    /\ Cardinality(Active) < dom.inflight

\* BaseRAGStore.upsert on the top-level store, up to the embedding call.
UpsertBegin(r) ==
    LET target == IF top.kind = "leaf" THEN top.obj ELSE ResolveTarget(r.store) IN
    IF target = 0 THEN Fail(r, RAGError("Unknown store"))
    ELSE [r EXCEPT !.tgt = target, !.pc = "u_embed", !.nEmbed = @ + 1]

\* (mutant: a SQLite upsert takes the store lock before its embedding call)
StartUpsertLocked(c, dom) ==
    /\ top.kind # "error"
    /\ FreeSlot(c, dom)
    /\ TotalDocs(docs) + PendingInserts < dom.maxDocs
    /\ \E source \in dom.sources, content \in dom.contents, store \in dom.upStores :
         LET r == UpsertBegin([Idle EXCEPT !.op = "upsert", !.source = source,
                                          !.content = content, !.store = store, !.pre = docs])
         IN
         /\ calls' = [calls EXCEPT ![c] = r]
         /\ lock' = IF r.tgt # 0 /\ objs[r.tgt].kind = "sqlite"
                    THEN [lock EXCEPT ![r.tgt] = c] ELSE lock
    /\ UNCHANGED <<config, objs, top, docs, uuids, issued>>

StartUpsert(c, dom) ==
    /\ top.kind # "error"
    /\ FreeSlot(c, dom)
    /\ TotalDocs(docs) + PendingInserts < dom.maxDocs
    /\ \E source \in dom.sources, content \in dom.contents, store \in dom.upStores :
         calls' = [calls EXCEPT ![c] =
            UpsertBegin([Idle EXCEPT !.op = "upsert", !.source = source,
                                     !.content = content, !.store = store, !.pre = docs])]
    /\ UNCHANGED <<config, objs, top, docs, lock, uuids, issued>>

\* BaseRAGStore.query on the top-level store, up to its first suspension.
QueryBegin(r, D) ==
    IF top.kind = "leaf" THEN LeafBegin(r, top.obj, r.embedding, D)
    ELSE LET chosen == ResolveSelection(r.stores) IN
         IF chosen.err # NoError THEN Fail(r, chosen.err)
         ELSE IF Truthy(r.embedding)
         THEN CompositeLoop([r EXCEPT !.sel = chosen.sel, !.i = 1, !.qvec = r.embedding.val], D)
         ELSE [r EXCEPT !.sel = chosen.sel, !.i = 1, !.pc = "q_embed", !.nEmbed = @ + 1]

StartQuery(c, dom) ==
    /\ top.kind # "error"
    /\ FreeSlot(c, dom)
    /\ \E text \in dom.texts, limit \in dom.limits, embedding \in dom.embArgs,
          stores \in dom.storeArgs :
         calls' = [calls EXCEPT ![c] =
            QueryBegin([Idle EXCEPT !.op = "query", !.text = text, !.limit = limit,
                                    !.embedding = embedding, !.stores = stores,
                                    !.pre = docs], docs)]
    /\ UNCHANGED <<config, objs, top, docs, lock, uuids, issued>>

\* The embedding call of call c answers the vector v: the coroutine goes on
\* to its next suspension.  An in-memory upsert inserts at once, under its
\* lock, which no other thread ever holds.
EmbedReturn(c, dom) ==
    LET r == calls[c] IN
    /\ r.pc \in {"u_embed", "q_embed", "lq_embed"}
    /\ \E v \in (IF r.op = "upsert" THEN dom.upVectors ELSE dom.qVectors) :
        IF r.pc = "u_embed" THEN
            IF objs[r.tgt].kind = "sqlite" THEN
                /\ calls' = [calls EXCEPT ![c] = [r EXCEPT !.vec = v, !.pc = "ins_wait"]]
                /\ UNCHANGED <<docs, uuids, issued>>
            ELSE
                LET docId == UuidStr(uuids + 1) IN
                /\ uuids' = uuids + 1
                /\ docs' = [docs EXCEPT ![r.tgt] = MemoryPut(@, docId, r.source, r.content, v)]
                /\ calls' = [calls EXCEPT ![c] = Done([r EXCEPT !.vec = v], UpsertResult(r, docId))]
                /\ issued' = Issue(r, UpsertResult(r, docId))
        ELSE
            /\ calls' = [calls EXCEPT ![c] =
                 IF r.pc = "q_embed" THEN CompositeLoop([r EXCEPT !.qvec = v], docs)
                 ELSE LeafScan([r EXCEPT !.lvec = v], docs)]
            /\ UNCHANGED <<docs, uuids, issued>>
    /\ UNCHANGED <<config, objs, top, lock>>

\* (mutant: a failed embedding call of an upsert is issued once more)
EmbedFailRetries(c, dom) ==
    LET r == calls[c] IN
    /\ r.pc \in {"u_embed", "q_embed", "lq_embed"}
    /\ \E e \in dom.embedErrors :
         calls' = [calls EXCEPT ![c] =
            IF r.op = "upsert" /\ r.nEmbed < 2 THEN [r EXCEPT !.nEmbed = @ + 1]
            ELSE Fail(r, e)]
    /\ UNCHANGED <<config, objs, top, docs, lock, uuids, issued>>

\* The embedding call of call c fails: the error reaches the caller.
EmbedFail(c, dom) ==
    LET r == calls[c] IN
    /\ r.pc \in {"u_embed", "q_embed", "lq_embed"}
    /\ \E e \in dom.embedErrors : calls' = [calls EXCEPT ![c] = Fail(r, e)]
    /\ UNCHANGED <<config, objs, top, docs, lock, uuids, issued>>

\* (mutant: the worker threads do not wait for the lock)
LockFreeAlways(o) == TRUE

\* with self._lock: entered by the worker thread of call c.
LockFree(o) == lock[o] = 0

\* _insert_document on its worker thread: the lock is taken, ...
InsertAcquire(c) ==
    LET r == calls[c] IN
    /\ r.pc = "ins_wait"
    /\ LockFree(r.tgt)
    /\ lock' = [lock EXCEPT ![r.tgt] = c]
    /\ calls' = [calls EXCEPT ![c].pc = "ins_in"]
    /\ UNCHANGED <<config, objs, top, docs, uuids, issued>>

\* (mutant: the insert returns without releasing the lock)
InsertExecKeepsLock(c) ==
    LET r == calls[c] IN
    /\ r.pc = "ins_in"
    /\ docs' = [docs EXCEPT ![r.tgt] = InsertRow(@, r.source, r.content, JsonDumps(r.vec))]
    /\ calls' = [calls EXCEPT ![c] = [r EXCEPT !.rowid = NextRowId(docs[r.tgt]), !.pc = "ins_ret"]]
    /\ UNCHANGED <<config, objs, top, lock, uuids, issued>>

\* ... the row is inserted and committed, cur.lastrowid is read and the
\* lock is released.
InsertExec(c) ==
    LET r == calls[c] IN
    /\ r.pc = "ins_in"
    /\ docs' = [docs EXCEPT ![r.tgt] = InsertRow(@, r.source, r.content, JsonDumps(r.vec))]
    /\ lock' = [lock EXCEPT ![r.tgt] = 0]
    /\ calls' = [calls EXCEPT ![c] = [r EXCEPT !.rowid = NextRowId(docs[r.tgt]), !.pc = "ins_ret"]]
    /\ UNCHANGED <<config, objs, top, uuids, issued>>

\* asyncio.to_thread returns to the upsert coroutine: return str(doc_id).
InsertResume(c) ==
    LET r == calls[c] IN
    /\ r.pc = "ins_ret"
    /\ calls' = [calls EXCEPT ![c] = Done(r, UpsertResult(r, Str(LastRowId(r, docs))))]
    /\ issued' = Issue(r, UpsertResult(r, Str(LastRowId(r, docs))))
    /\ UNCHANGED <<config, objs, top, docs, lock, uuids>>

\* _fetch_rows on its worker thread: the lock is taken, ...
FetchAcquire(c) ==
    LET r == calls[c] IN
    /\ r.pc = "fetch_wait"
    /\ LockFree(r.tgt)
    /\ lock' = [lock EXCEPT ![r.tgt] = c]
    /\ calls' = [calls EXCEPT ![c] = [r EXCEPT !.pc = "fetch_in", !.snap = docs[r.tgt]]]
    /\ UNCHANGED <<config, objs, top, docs, uuids, issued>>

\* ... SELECT id, source, content, embedding: fetchall, and the lock is
\* released.
FetchExec(c) ==
    LET r == calls[c] IN
    /\ r.pc = "fetch_in"
    /\ lock' = [lock EXCEPT ![r.tgt] = 0]
    /\ calls' = [calls EXCEPT ![c] = [r EXCEPT !.rows = docs[r.tgt], !.pc = "fetch_ret"]]
    /\ UNCHANGED <<config, objs, top, docs, uuids, issued>>

\* (mutant: the rows are read again when the coroutine resumes, without the
\* lock)
FetchResumeRereads(c) ==
    LET r == calls[c] IN
    /\ r.pc = "fetch_ret"
    /\ calls' = [calls EXCEPT ![c] =
         LeafFinish([r EXCEPT !.rows = <<>>], SqliteItems(docs[r.tgt]), docs)]
    /\ UNCHANGED <<config, objs, top, docs, lock, uuids, issued>>

\* asyncio.to_thread returns to the query coroutine: scoring, sort, cut, and
\* on to the next suspension.
FetchResume(c) ==
    LET r == calls[c] IN
    /\ r.pc = "fetch_ret"
    /\ calls' = [calls EXCEPT ![c] = LeafFinish([r EXCEPT !.rows = <<>>], SqliteItems(r.rows), docs)]
    /\ UNCHANGED <<config, objs, top, docs, lock, uuids, issued>>

\* The caller takes the result (or the error) of a finished call.
Return(c) ==
    /\ calls[c].pc = "done"
    /\ calls' = [calls EXCEPT ![c] = Idle]
    /\ UNCHANGED <<config, objs, top, docs, lock, uuids, issued>>

\* The state after construction.
InitWith(dom) ==
    \E how \in dom.constructions :
        LET built == Construct(how) IN
        /\ config = how
        /\ objs = built.objs
        /\ top = built.top
        /\ docs = [o \in DOMAIN built.objs |-> <<>>]
        /\ lock = [o \in DOMAIN built.objs |-> 0]
        /\ uuids = 0
        /\ calls = [c \in Slots |-> Idle]
        /\ issued = [o \in DOMAIN built.objs |-> <<>>]

NextWith(dom) ==
    \E c \in Slots :
        \/ StartUpsert(c, dom)
        \/ StartQuery(c, dom)
        \/ EmbedReturn(c, dom)
        \/ EmbedFail(c, dom)
        \/ InsertAcquire(c)
        \/ InsertExec(c)
        \/ InsertResume(c)
        \/ FetchAcquire(c)
        \/ FetchExec(c)
        \/ FetchResume(c)
        \/ Return(c)

\* ------------------------------------------------------------ input sets
Alpha == <<"alpha">>
Beta == <<"beta">>
Gamma == <<"gamma">>
Memory0 == <<"memory", Colon, "0">>

\* Entries of RAG_SOURCES.
Entry(type, name, path) == [isObj |-> TRUE, type |-> type, name |-> name, path |-> path]
EAlpha == Entry(Some("sqlite"), Some(Alpha), Some(<<"a.db">>))
EBeta == Entry(Some("memory"), Some(Beta), None)
EMemory == Entry(Some("Memory"), None, None)
ESqlite == Entry(None, Some(<<>>), Some(<<"b.db">>))
ENoPath == Entry(Some("sqlite"), Some(Alpha), None)
EOther == Entry(Some("redis"), None, None)
ENotObject == [isObj |-> FALSE, type |-> None, name |-> None, path |-> None]

Factory(entries) == [route |-> "factory", raw |-> [kind |-> "array", entries |-> entries], objs |-> <<>>]
FactoryRaw(kind) == [route |-> "factory", raw |-> [kind |-> kind, entries |-> <<>>], objs |-> <<>>]
Direct(stores) == [route |-> "direct", raw |-> [kind |-> "unset", entries |-> <<>>], objs |-> stores]

\* The composite of the tests: a SQLite store "alpha" and an in-memory
\* store "beta".
AlphaBeta == Direct(<<SQLiteRAGStore(<<"a.db">>, Some(Alpha)), InMemoryRAGStore(Beta)>>)

\* What the embedding provider raises: OllamaEmbeddingBackend's RAGError,
\* or an httpx transport error it lets through.
EmbedMissing == RAGError("Ollama embeddings response missing 'embedding'")
EmbedTransport == [cls |-> "httpx.ConnectError", msg |-> "connection failed"]

\* ------------------------------------------------- specification: queries
\* One call at a time; documents differ in their embeddings; queries take
\* every limit, embedding and store selection.
QueryDom ==
    [constructions |-> {AlphaBeta, FactoryRaw("unset"), Factory(<<EMemory>>)},
     sources |-> {None},
     contents |-> {"hello"},
     upStores |-> {None, Some(Beta)},
     texts |-> {"hello"},
     limits |-> (-1) .. MaxLimit,
     embArgs |-> {None, Some(<<>>), Some(<<1, 0>>), Some(<<1>>)},
     storeArgs |-> {None, Some(<<>>), Some(<<Alpha>>), Some(<<Gamma>>),
                    Some(<<Beta, Alpha>>), Some(<<Alpha, Alpha>>), Some(<<Alpha, Gamma>>)},
     upVectors |-> {<<1>>, <<1, 0>>, <<0, 1>>, <<1, 1>>},
     qVectors |-> {<<>>, <<1, 1>>, <<-1, 0>>},
     embedErrors |-> {EmbedMissing},
     inflight |-> 1,
     maxDocs |-> MaxDocsQuery]

InitQuery == InitWith(QueryDom)
NextQuery == NextWith(QueryDom)
SpecQuery == InitQuery /\ [][NextQuery]_vars

\* ------------------------------------------------------- claims: queries
QueryDone(c) == calls[c].op = "query" /\ calls[c].pc = "done"
QueryOk(c) == QueryDone(c) /\ calls[c].err = NoError /\ calls[c].res.some
IsComposite == top.kind = "composite"
UnknownStoreError == RAGError("Unknown store")

IdsOf(ds) == {ds[i].id : i \in DOMAIN ds}
NonIncreasing(ds) ==
    \A i, j \in DOMAIN ds : i < j => ~ScoreLess(ds[i].score, ds[j].score)
PosOf(items, id) == CHOOSE k \in DOMAIN items : items[k].id = id

\* What one leaf query (scan e of a call with this limit) must have returned
\* over the documents `items` of its store.
LeafQueryAsClaimed(e, limit) ==
    LET n == Len(e.items)
        res == e.docs
    IN
    /\ Len(res) = Min0(limit, n)
    /\ \A i \in DOMAIN res : \E k \in DOMAIN e.items :
          /\ e.items[k].id = res[i].id
          /\ e.items[k].source = res[i].source
          /\ e.items[k].content = res[i].content
          /\ res[i].score = CosineSimilarity(e.vec, e.items[k].vec)
          /\ res[i].store = objs[e.obj].name
    /\ \A i, j \in DOMAIN res : i < j => res[i].id # res[j].id
    /\ NonIncreasing(res)
    /\ \A i, j \in DOMAIN res :
          (i < j /\ ScoreEq(res[i].score, res[j].score))
             => PosOf(e.items, res[i].id) < PosOf(e.items, res[j].id)
    /\ \A k \in DOMAIN e.items :
          e.items[k].id \notin IdsOf(res)
             => \A i \in DOMAIN res :
                   ~ScoreLess(res[i].score, CosineSimilarity(e.vec, e.items[k].vec))
    /\ limit >= n => \A k \in DOMAIN e.items : e.items[k].id \in IdsOf(res)

\* C2: a leaf query (of a SQLite or an in-memory store, called directly or
\* as a member of the composite) with limit > 0 over a store that holds n
\* documents returns exactly min(limit, n) results, each stored document at
\* most once, in descending order of cosine score, documents of equal score
\* in insertion order, no document left out outranking a returned one; with
\* limit >= n every stored id is returned.
C2_LeafQueryTopLimit ==
    \A c \in Slots :
        (QueryDone(c) /\ calls[c].limit > 0) =>
            \A k \in DOMAIN calls[c].seen :
                LET e == calls[c].seen[k] IN
                e.err = NoError =>
                    /\ e.items = StoreItems(e.obj, docs)
                    /\ LeafQueryAsClaimed(e, calls[c].limit)

\* C2 witness: a leaf query that had to cut (more documents than the limit)
\* and returned two documents of equal score.
C2_Witness ==
    \E c \in Slots :
        /\ QueryOk(c)
        /\ calls[c].limit > 1
        /\ \E k \in DOMAIN calls[c].seen :
              LET e == calls[c].seen[k] IN
              /\ e.err = NoError
              /\ Len(e.items) > calls[c].limit
              /\ ScoreEq(e.docs[1].score, e.docs[2].score)
              /\ \E m \in DOMAIN e.items : ScoreLess(e.docs[2].score,
                                                      CosineSimilarity(e.vec, e.items[m].vec))
                                           \/ ScoreLess(CosineSimilarity(e.vec, e.items[m].vec),
                                                        e.docs[2].score)

\* The members a composite query selected: the named members, or every
\* member when no name was given.
MemberObjs == Range(DictValues(top.stores))
SelectedMembers(r) ==
    IF Truthy(r.stores)
    THEN {DictGet(top.stores, n) : n \in {x \in Range(r.stores.val) : DictHas(top.stores, x)}}
    ELSE MemberObjs

DocsIn(S) ==
    LET RECURSIVE Sum(_)
        Sum(n) == IF n = 0 THEN 0 ELSE (IF n \in S THEN Len(docs[n]) ELSE 0) + Sum(n - 1)
    IN Sum(Len(objs))

\* The score member o gave a document in the composite query r.
MemberScore(r, o, item) ==
    LET e == r.seen[CHOOSE k \in DOMAIN r.seen : r.seen[k].obj = o] IN
    CosineSimilarity(e.vec, item.vec)

GlobalTopLimit(r, S) ==
    LET res == r.res.val IN
    /\ Len(res) = Min0(r.limit, DocsIn(S))
    /\ NonIncreasing(res)
    /\ \A o \in S : \A k \in DOMAIN StoreItems(o, docs) :
          LET item == StoreItems(o, docs)[k] IN
          QualifiedId(objs[o].name, item.id) \notin IdsOf(res)
             => \A i \in DOMAIN res : ~ScoreLess(res[i].score, MemberScore(r, o, item))

\* C1 (as claimed): a composite query with limit > 0 returns the global
\* top-limit of the selected members: min(limit, documents in the selected
\* members) results, scores non-increasing, and no document of a selected
\* member that was left out scores above a returned one.
C1_GlobalTopLimit ==
    \A c \in Slots :
        (IsComposite /\ QueryOk(c) /\ calls[c].limit > 0)
            => GlobalTopLimit(calls[c], SelectedMembers(calls[c]))

\* The same statement for the selections that name no member twice: there
\* it holds.
NoRepeat(s) == \A i, j \in DOMAIN s : i # j => s[i] # s[j]
C1_GlobalTopLimitDistinct ==
    \A c \in Slots :
        (/\ IsComposite /\ QueryOk(c) /\ calls[c].limit > 0
         /\ calls[c].stores.some => NoRepeat(calls[c].stores.val))
            => GlobalTopLimit(calls[c], SelectedMembers(calls[c]))

\* C4 (as claimed): when `stores` is given, only the named members are
\* queried and every result's store is one of the names.
C4_SelectionExactlyNamed ==
    \A c \in Slots :
        (IsComposite /\ QueryOk(c) /\ calls[c].stores.some) =>
            /\ \A i \in DOMAIN calls[c].res.val :
                  calls[c].res.val[i].store \in Range(calls[c].stores.val)
            /\ \A k \in DOMAIN calls[c].seen :
                  objs[calls[c].seen[k].obj].name \in Range(calls[c].stores.val)

\* The same statement for a `stores` argument that is not the empty list:
\* there it holds.
C4_SelectionNonEmptyNamed ==
    \A c \in Slots :
        (IsComposite /\ QueryOk(c) /\ Truthy(calls[c].stores)) =>
            /\ \A i \in DOMAIN calls[c].res.val :
                  calls[c].res.val[i].store \in Range(calls[c].stores.val)
            /\ \A k \in DOMAIN calls[c].seen :
                  objs[calls[c].seen[k].obj].name \in Range(calls[c].stores.val)

\* C5: a composite query whose `stores` holds a name that is no member, next
\* to valid names or not, fails with the unknown-store error: it returns no
\* result, queries no member and issues no embedding call.
NamesUnknown(r) ==
    r.stores.some /\ \E k \in DOMAIN r.stores.val : ~DictHas(top.stores, r.stores.val[k])
C5_UnknownStoreFailsFirst ==
    \A c \in Slots :
        (IsComposite /\ calls[c].op = "query" /\ NamesUnknown(calls[c])) =>
            /\ calls[c].pc = "done"
            /\ calls[c].err = UnknownStoreError
            /\ ~calls[c].res.some
            /\ calls[c].nEmbed = 0
            /\ calls[c].nLeaf = 0
            /\ calls[c].seen = <<>>

\* C5 witness: the failed call named a member before the unknown name, over
\* stores that hold documents, and brought no embedding of its own.
C5_Witness ==
    \E c \in Slots :
        /\ IsComposite /\ QueryDone(c) /\ NamesUnknown(calls[c])
        /\ calls[c].err = UnknownStoreError
        /\ DictHas(top.stores, calls[c].stores.val[1])
        /\ ~calls[c].embedding.some
        /\ calls[c].limit > 0
        /\ \A o \in MemberObjs : docs[o] # <<>>

\* ------------------------------------------------- specification: upserts
\* One call at a time; every shape of store the factory and the tests build
\* (default names, repeated names, a single leaf, failed constructions);
\* upserts take every source, content and target name.
UpsertDom ==
    [constructions |-> {AlphaBeta,
                        Factory(<<EMemory, EMemory>>), Factory(<<ESqlite, EBeta>>),
                        Factory(<<EBeta, EBeta>>),
                        FactoryRaw("unset"), Factory(<<EMemory>>),
                        Factory(<<>>), Direct(<<>>),
                        FactoryRaw("invalid_json"), FactoryRaw("not_array"),
                        Factory(<<ENoPath>>), Factory(<<EOther>>), Factory(<<ENotObject>>)},
     sources |-> {None, Some("docA")},
     contents |-> {"hello", "world"},
     upStores |-> {None, Some(<<>>), Some(Alpha), Some(Beta), Some(Gamma), Some(Memory0)},
     texts |-> {"hello"},
     limits |-> {MaxDocsUpsert},
     embArgs |-> {None},
     storeArgs |-> {None},
     upVectors |-> {<<1, 0>>, <<0, 1>>},
     qVectors |-> {<<1, 0>>},
     embedErrors |-> {EmbedMissing, EmbedTransport},
     inflight |-> 1,
     maxDocs |-> MaxDocsUpsert]

InitUpsert == InitWith(UpsertDom)
NextUpsert == NextWith(UpsertDom)
SpecUpsert == InitUpsert /\ [][NextUpsert]_vars

\* ------------------------------------------ specification: concurrent calls
\* Up to MaxInFlight calls in flight on the composite of the tests and on a
\* single SQLite store; the upserts differ in their content.
ConcDom ==
    [constructions |-> {AlphaBeta, FactoryRaw("unset")},
     sources |-> {None},
     contents |-> {"hello", "world"},
     upStores |-> {None, Some(Beta)},
     texts |-> {"hello"},
     limits |-> {MaxLimit},
     embArgs |-> {None, Some(<<1, 0>>)},
     storeArgs |-> {None},
     upVectors |-> {<<1, 0>>},
     qVectors |-> {<<1, 0>>},
     embedErrors |-> {EmbedMissing},
     inflight |-> MaxInFlight,
     maxDocs |-> MaxDocsConc]

InitConc == InitWith(ConcDom)
NextConc == NextWith(ConcDom)
SpecConc == InitConc /\ [][NextConc]_vars

\* ------------------------------------------------------- claims: upserts
UpsertDone(c) == calls[c].op = "upsert" /\ calls[c].pc = "done"
UpsertOk(c) == UpsertDone(c) /\ calls[c].err = NoError /\ calls[c].res.some

\* Store o holds what it held when call r began and, after that, exactly
\* one more document: the one r was called with.
OneMore(r, o) ==
    LET now == StoreItems(o, docs)
        before == StoreItems(o, r.pre)
    IN
    /\ Len(now) = Len(before) + 1
    /\ SubSeq(now, 1, Len(before)) = before
    /\ now[Len(now)].source = r.source
    /\ now[Len(now)].content = r.content
    /\ now[Len(now)].vec = r.vec
    /\ \A k \in DOMAIN before : before[k].id # now[Len(now)].id
NewDocId(o) == StoreItems(o, docs)[Len(docs[o])].id
Untouched(r, o) == docs[o] = r.pre[o]

\* C3: a composite upsert with store = S, S naming a member, inserts exactly
\* one document into member S, changes no other store, and returns
\* "S:<local-id>", <local-id> being the id the member gave the document.
C3_NamedTargetUpsert ==
    \A c \in Slots :
        (IsComposite /\ UpsertOk(c) /\ calls[c].store.some) =>
            /\ DictHas(top.stores, calls[c].store.val)
            /\ LET o == DictGet(top.stores, calls[c].store.val) IN
               /\ objs[o].name = calls[c].store.val
               /\ OneMore(calls[c], o)
               /\ \A other \in DOMAIN objs : other # o => Untouched(calls[c], other)
               /\ calls[c].res.val = QualifiedId(calls[c].store.val, NewDocId(o))

\* C3 witness: the named member is not the default one and held a document
\* before the call.
C3_Witness ==
    \E c \in Slots :
        /\ IsComposite /\ UpsertOk(c) /\ calls[c].store.some
        /\ DictGet(top.stores, calls[c].store.val) # top.default
        /\ calls[c].pre[DictGet(top.stores, calls[c].store.val)] # <<>>

\* C6: a composite upsert whose `store` names no member fails with the
\* unknown-store error, issues no embedding call and leaves the documents of
\* every store as they were.
C6_UnknownTargetFails ==
    \A c \in Slots :
        (/\ IsComposite /\ calls[c].op = "upsert"
         /\ calls[c].store.some /\ ~DictHas(top.stores, calls[c].store.val)) =>
            /\ calls[c].pc = "done"
            /\ calls[c].err = UnknownStoreError
            /\ ~calls[c].res.some
            /\ calls[c].nEmbed = 0
            /\ docs = calls[c].pre

\* C6 witness: the call failed over stores that hold documents.
C6_Witness ==
    \E c \in Slots :
        /\ IsComposite /\ UpsertDone(c)
        /\ calls[c].store.some /\ ~DictHas(top.stores, calls[c].store.val)
        /\ calls[c].err = UnknownStoreError
        /\ \E o \in DOMAIN objs : docs[o] # <<>>

\* C7: a composite upsert without a `store` argument inserts its document
\* into the first store of the sequence the composite was built from, and
\* into no other store.
C7_DefaultTargetIsFirst ==
    \A c \in Slots :
        (IsComposite /\ UpsertOk(c) /\ ~calls[c].store.some) =>
            /\ OneMore(calls[c], 1)
            /\ \A other \in DOMAIN objs : other # 1 => Untouched(calls[c], other)

\* C7 witness: the first store shares its name with a later one, which is
\* the one _stores maps the name to.
C7_Witness ==
    \E c \in Slots :
        /\ IsComposite /\ UpsertOk(c) /\ ~calls[c].store.some
        /\ Len(objs) > 1
        /\ DictGet(top.stores, objs[1].name) # 1

\* C8 (as claimed): the text before the first ':' of every id the composite
\* returns (from upsert, and in query results) is the name of the member
\* that holds the document.
HolderOf(id) ==
    {o \in DOMAIN objs : \E k \in DOMAIN StoreItems(o, docs) :
        QualifiedId(objs[o].name, StoreItems(o, docs)[k].id) = id}
C8_QualifiedIdRoundTrip ==
    \A c \in Slots :
        /\ (IsComposite /\ UpsertOk(c)) =>
              \A o \in DOMAIN objs :
                  docs[o] # calls[c].pre[o] =>
                      BeforeFirstColon(calls[c].res.val) = objs[o].name
        /\ (IsComposite /\ QueryOk(c)) =>
              \A i \in DOMAIN calls[c].res.val :
                  /\ BeforeFirstColon(calls[c].res.val[i].id) = calls[c].res.val[i].store
                  /\ \E o \in HolderOf(calls[c].res.val[i].id) :
                        objs[o].name = calls[c].res.val[i].store

\* The same statement for composites none of whose member names holds a
\* ':': there it holds.
C8_RoundTripColonFree ==
    (\A o \in DOMAIN objs : ~HasColon(objs[o].name)) => C8_QualifiedIdRoundTrip

ReturnedIdOf(o, item) ==
    IF IsComposite THEN QualifiedId(objs[o].name, item.id) ELSE item.id

\* C10: under every interleaving of upsert calls, the documents of a store
\* have pairwise distinct ids, the ids the upserts on one store returned are
\* pairwise distinct, and each returned id is the id of the stored document
\* that carries its caller's source and content.
C10_IdsUnique ==
    \A o \in DOMAIN objs :
        LET items == StoreItems(o, docs) IN
        /\ \A i, j \in DOMAIN items : i # j => items[i].id # items[j].id
        /\ \A i, j \in DOMAIN issued[o] : i # j => issued[o][i].id # issued[o][j].id
        /\ \A i \in DOMAIN issued[o] : \E k \in DOMAIN items :
              /\ ReturnedIdOf(o, items[k]) = issued[o][i].id
              /\ items[k].source = issued[o][i].source
              /\ items[k].content = issued[o][i].content

\* C10 witness: two upserts with different contents overlapped on one SQLite
\* store, and the one that inserted second returned first.
C10_Witness ==
    \E o \in DOMAIN objs :
        /\ objs[o].kind = "sqlite"
        /\ Len(issued[o]) = 2
        /\ issued[o][1].id = ReturnedIdOf(o, StoreItems(o, docs)[2])
        /\ issued[o][1].content # issued[o][2].content

\* ------------------------------------------- claims: limits and embeddings
\* The embedding provider failed during call r.
ProviderFailed(r) == r.err \in {EmbedMissing, EmbedTransport}

\* C11 (as claimed): a query with limit <= 0 on a SQLite store, an in-memory
\* store or a composite ends without an error and returns the empty
\* sequence, whatever the stores hold (calls whose embedding provider failed
\* or that name an unknown store are left aside).
C11_NonPositiveLimitEmpty ==
    \A c \in Slots :
        (/\ QueryDone(c) /\ calls[c].limit <= 0
         /\ ~ProviderFailed(calls[c])
         /\ calls[c].err # UnknownStoreError) =>
            /\ calls[c].err = NoError
            /\ calls[c].res = Some(<<>>)

\* The part of C11 that holds: a query with limit <= 0 that ends without an
\* error returns the empty sequence.
C11_NonPositiveLimitEmptyOnSuccess ==
    \A c \in Slots :
        (QueryOk(c) /\ calls[c].limit <= 0) => calls[c].res = Some(<<>>)

\* What C12 says of call r, given an `embedding` argument: no embedding call
\* is issued and every scan scores against the given vector.
PrecomputedUsed(r) ==
    /\ r.nEmbed = 0
    /\ \A k \in DOMAIN r.seen : r.seen[k].vec = r.embedding.val

\* C12 (as claimed): a query called with an `embedding` argument, whatever
\* the vector, scores against that vector and never invokes the embedding
\* provider.
C12_PrecomputedEmbeddingUsed ==
    \A c \in Slots :
        (calls[c].op = "query" /\ calls[c].embedding.some) => PrecomputedUsed(calls[c])

\* The same statement for the vectors that are not empty: there it holds.
C12_PrecomputedNonEmptyUsed ==
    \A c \in Slots :
        (calls[c].op = "query" /\ Truthy(calls[c].embedding)) => PrecomputedUsed(calls[c])

\* A composite query that passed its selection and brought no embedding.
CompositeEmbeds(r) ==
    /\ IsComposite /\ r.op = "query"
    /\ ~r.embedding.some
    /\ ~NamesUnknown(r)

\* What C13 says of such a call: one embedding call in total, and every
\* member scan scores against the vector that call returned.
EmbeddedOnce(r) ==
    /\ r.nEmbed = 1
    /\ \A k \in DOMAIN r.seen : r.seen[k].vec = r.qvec

\* C13 (as claimed): a composite query without a precomputed embedding issues
\* exactly one embedding call in total, whatever the number of selected
\* members and whatever vector the provider returns, and every selected
\* member scores against that one vector.
C13_EmbeddedExactlyOnce ==
    \A c \in Slots : CompositeEmbeds(calls[c]) => EmbeddedOnce(calls[c])

\* The same statement for the calls whose provider returned a vector that is
\* not empty: there it holds.
C13_EmbeddedOnceNonEmpty ==
    \A c \in Slots :
        (CompositeEmbeds(calls[c]) /\ ~(calls[c].nLeaf > 0 /\ calls[c].qvec = <<>>))
            => EmbeddedOnce(calls[c])

\* ---------------------------------------------- claims: dimensionality
MismatchError == RAGError("Embedding dimensionality mismatch")

\* C14 (as claimed): whenever a scanned store holds a document whose
\* embedding differs in length from the query vector, the scan raises the
\* dimensionality error and the call fails with it, returning nothing: no
\* document is scored against a vector of another length.
C14_MismatchIsHardError ==
    \A c \in Slots :
        calls[c].op = "query" =>
            \A k \in DOMAIN calls[c].seen :
                LET e == calls[c].seen[k] IN
                (\E m \in DOMAIN e.items : Len(e.items[m].vec) # Len(e.vec)) =>
                    /\ e.err = MismatchError
                    /\ calls[c].pc = "done"
                    /\ calls[c].err = MismatchError
                    /\ ~calls[c].res.some

\* The same statement for vectors that are not empty: there it holds.
C14_MismatchNonEmptyIsHardError ==
    \A c \in Slots :
        calls[c].op = "query" =>
            \A k \in DOMAIN calls[c].seen :
                LET e == calls[c].seen[k] IN
                (/\ e.vec # <<>>
                 /\ \E m \in DOMAIN e.items :
                       e.items[m].vec # <<>> /\ Len(e.items[m].vec) # Len(e.vec)) =>
                    /\ e.err = MismatchError
                    /\ calls[c].pc = "done"
                    /\ calls[c].err = MismatchError
                    /\ ~calls[c].res.some

\* ------------------------------------------------- claims: membership
\* CompositeRAGStore.store_names.
StoreNames == DictKeys(top.stores)

\* C15 (as claimed): every composite that was constructed has pairwise
\* distinct member names, and every store of the sequence it was constructed
\* from is one of its members.
C15_MemberNamesUnique ==
    IsComposite =>
        /\ \A i, j \in DOMAIN objs : i # j => objs[i].name # objs[j].name
        /\ \A o \in DOMAIN objs : o \in MemberObjs

\* C16: constructing a composite from the empty sequence fails, a composite
\* has at least one member, and no upsert or query call, successful or
\* failing, changes what store_names returns.
C16_MembersFixedNonEmpty ==
    /\ [](objs = <<>> => top.kind = "error")
    /\ [](IsComposite => StoreNames # <<>>)
    /\ [][StoreNames' = StoreNames]_vars

\* C16 witness: a composite that has taken a successful upsert and has just
\* refused one for an unknown store.
C16_Witness ==
    /\ IsComposite
    /\ Len(StoreNames) > 1
    /\ \E o \in DOMAIN objs : docs[o] # <<>>
    /\ \E c \in Slots : UpsertDone(c) /\ calls[c].err = UnknownStoreError

\* ------------------------------------------- claims: member failures
\* C17: when the query of a selected member fails during a composite query
\* (its scoring raises the dimensionality error, or its own embedding call
\* fails), the composite call ends at once with that error and returns
\* nothing: the results of the members queried before are dropped and no
\* further member is queried.
C17_MemberFailureFailsCall ==
    \A c \in Slots :
        (IsComposite /\ calls[c].op = "query") =>
            /\ \A k \in DOMAIN calls[c].seen :
                  calls[c].seen[k].err # NoError =>
                      /\ k = Len(calls[c].seen)
                      /\ calls[c].pc = "done"
                      /\ calls[c].err = calls[c].seen[k].err
            /\ calls[c].err # NoError => (calls[c].pc = "done" /\ ~calls[c].res.some)

\* C17 witness: the first member answered with a document, the second one
\* failed.
C17_Witness ==
    \E c \in Slots :
        /\ IsComposite /\ QueryDone(c)
        /\ Len(calls[c].seen) = 2
        /\ calls[c].seen[1].err = NoError
        /\ calls[c].seen[1].docs # <<>>
        /\ calls[c].seen[2].err = MismatchError
        /\ calls[c].err = MismatchError

\* ------------------------------------------- claims: locking and snapshots
\* The calls inside the insert or fetch critical section of store o.
InCriticalSection(o) ==
    {c \in Slots : calls[c].pc \in {"ins_in", "fetch_in"} /\ calls[c].tgt = o}

\* C18: in every interleaving of upsert and query calls, at most one call is
\* inside the insert/fetch critical section of a store, and it is the call
\* holding the store's lock: no insert and no scan of the store runs
\* between another one's lock acquisition and release.
C18_MutualExclusion ==
    \A o \in DOMAIN objs :
        /\ Cardinality(InCriticalSection(o)) <= 1
        /\ InCriticalSection(o) = (IF lock[o] = 0 THEN {} ELSE {lock[o]})

\* C18 witness: an upsert is inside the critical section of a SQLite store
\* while a query's scan of the same store waits for the lock.
C18_Witness ==
    \E a, b \in Slots :
        /\ calls[a].op = "upsert" /\ calls[a].pc = "ins_in"
        /\ calls[b].op = "query" /\ calls[b].pc = "fetch_wait"
        /\ calls[a].tgt = calls[b].tgt

\* The documents of a store of object o, as a scan yields them, when the
\* store held `held`.
ItemsOf(o, held) == IF objs[o].kind = "sqlite" THEN SqliteItems(held) ELSE MemoryItems(held)

\* C19: with upserts in flight on the same store, every scan of a query
\* works on the documents the store held when the scan took the store's
\* lock: those documents are complete (id, source, content, embedding) and
\* are the store's documents up to some insert, a document inserted later is
\* absent as a whole, and the scan's result is the result of the query over
\* exactly those documents.
C19_ConsistentSnapshot ==
    \A c \in Slots :
        calls[c].op = "query" =>
            /\ calls[c].pc = "fetch_ret" => calls[c].rows = calls[c].snap
            /\ \A k \in DOMAIN calls[c].seen :
                  LET e == calls[c].seen[k]
                      held == ItemsOf(e.obj, e.snap)
                      out == LeafResult(objs[e.obj].name, e.vec, held, calls[c].limit)
                  IN
                  /\ e.items = held
                  /\ Len(e.snap) <= Len(docs[e.obj])
                  /\ SubSeq(docs[e.obj], 1, Len(e.snap)) = e.snap
                  /\ e.err = out.err
                  /\ e.docs = out.docs
                  /\ (top.kind = "leaf" /\ QueryOk(c)) => calls[c].res.val = out.docs

\* C19 witness: a query of a SQLite store returned the one document the
\* store held when its scan took the lock, and an upsert that was in flight
\* at that time has inserted a second document since.
C19_Witness ==
    \E c \in Slots :
        /\ QueryOk(c)
        /\ \E k \in DOMAIN calls[c].seen :
              LET e == calls[c].seen[k] IN
              /\ objs[e.obj].kind = "sqlite"
              /\ Len(e.snap) = 1
              /\ Len(e.docs) = 1
              /\ Len(docs[e.obj]) = 2

\* ------------------------------------------- claims: embedding failures
\* C20: an upsert invokes the embedding provider at most once; when that
\* call fails, the upsert ends with the provider's error, returns no id and
\* leaves every store as it was when the upsert began.
C20_NoRetryOnEmbedFailure ==
    \A c \in Slots :
        calls[c].op = "upsert" =>
            /\ calls[c].nEmbed <= 1
            /\ (calls[c].pc = "done" /\ calls[c].tgt # 0 /\ ~UpsertOk(c)) =>
                  /\ ProviderFailed(calls[c])
                  /\ calls[c].nEmbed = 1
                  /\ ~calls[c].res.some
                  /\ \A o \in DOMAIN objs : Untouched(calls[c], o)

\* C20 witness: the embedding call of an upsert on a store that holds a
\* document failed with a transport error.
C20_Witness ==
    \E c \in Slots :
        /\ UpsertDone(c)
        /\ calls[c].err = EmbedTransport
        /\ calls[c].tgt # 0
        /\ docs[calls[c].tgt] # <<>>

\* ------------------------------------------------- claims: error kinds
\* What a caller can test of an error without reading its message: its
\* class.
KindOf(err) == err.cls

\* The errors the store raises, by the cause the spec names.
RaisedErrors ==
    {[cause |-> "EmbeddingUnavailable", err |-> EmbedMissing],
     [cause |-> "DimensionalityMismatch", err |-> MismatchError],
     [cause |-> "UnknownStore", err |-> UnknownStoreError],
     [cause |-> "ConfigurationInvalid", err |-> RAGError("RAG_SOURCES must be valid JSON")],
     [cause |-> "ConfigurationInvalid", err |-> RAGError("RAG_SOURCES must be a JSON array")],
     [cause |-> "ConfigurationInvalid", err |-> RAGError("Each RAG source must be an object")],
     [cause |-> "ConfigurationInvalid", err |-> RAGError("sqlite RAG source requires 'path'")],
     [cause |-> "ConfigurationInvalid", err |-> RAGError("Unsupported RAG source type")]}
CauseOf(err) == (CHOOSE x \in RaisedErrors : x.err = err).cause

\* C21 (as claimed): the error a call receives tells its cause by its kind:
\* no error the store raises for another cause has the same kind.
C21_ErrorKindsDistinct ==
    \A c \in Slots :
        (calls[c].pc = "done" /\ calls[c].err # NoError
         /\ \E x \in RaisedErrors : x.err = calls[c].err) =>
            \A x \in RaisedErrors :
                x.cause # CauseOf(calls[c].err) => KindOf(x.err) # KindOf(calls[c].err)

\* What does hold: the errors of different causes differ as values (in
\* their message).
C21_ErrorsDistinctByMessage ==
    \A c \in Slots :
        (calls[c].pc = "done" /\ calls[c].err # NoError
         /\ \E x \in RaisedErrors : x.err = calls[c].err) =>
            \A x \in RaisedErrors :
                x.cause # CauseOf(calls[c].err) => x.err # calls[c].err

\* ------------------------------------------------- claims: the factory
\* RAG_SOURCES is absent, or is the empty list.
NoDescriptors ==
    /\ config.route = "factory"
    /\ \/ config.raw.kind = "unset"
       \/ config.raw.kind = "array" /\ config.raw.entries = <<>>

OneDefaultSqliteStore ==
    /\ top.kind = "leaf"
    /\ top.err = NoError
    /\ objs = <<SQLiteRAGStore(DefaultDbPath, None)>>

\* C22 (as claimed): build_default_store with no descriptor list, or with
\* the empty list, yields one default-configured SQLite store and no error.
C22_NoDescriptorsYieldDefault ==
    NoDescriptors => OneDefaultSqliteStore

\* The same statement for the absent list alone: there it holds.
C22_AbsentYieldsDefault ==
    (config.route = "factory" /\ config.raw.kind = "unset") => OneDefaultSqliteStore

\* ------------------------------------- claims: embedding and the lock
AwaitsEmbedding(c) == calls[c].pc \in {"u_embed", "q_embed", "lq_embed"}

C24_NoCrossStoreSnapshot ==
    [][\A c \in Slots :
          (IsComposite /\ calls[c].op = "query" /\ calls'[c].op = "query") =>
              /\ (calls[c].pc = "fetch_wait" /\ calls'[c].pc = "fetch_in")
                    => calls'[c].snap = docs[calls[c].tgt]
              /\ \A k \in DOMAIN calls'[c].seen :
                    (k > Len(calls[c].seen) /\ objs[calls'[c].seen[k].obj].kind = "memory")
                        => calls'[c].seen[k].snap = docs[calls'[c].seen[k].obj]
      ]_vars

\* C24 witness: a composite query over alpha and beta that began on empty
\* stores has returned; while it ran, an upsert into alpha completed and,
\* after that, an upsert into beta began and completed: the query returns
\* beta's new document and not alpha's.
C24_Witness ==
    \E q, u \in Slots :
        /\ IsComposite /\ QueryOk(q) /\ UpsertOk(u)
        /\ Len(calls[q].seen) = 2
        /\ LET a == calls[q].seen[1].obj
               b == calls[q].seen[2].obj
           IN
           /\ a # b
           /\ calls[q].pre[a] = <<>> /\ calls[q].pre[b] = <<>>
           /\ calls[u].tgt = b
           /\ calls[u].pre[a] # <<>>
           /\ Len(issued[a]) = 1
           /\ calls[u].pre[b] = <<>>
           /\ calls[u].res.val \in IdsOf(calls[q].res.val)
           /\ \A i \in DOMAIN calls[q].res.val : calls[q].res.val[i].store = objs[b].name

\* ------------------------------------- specification: similarity scorer
\* One call at a time on a single SQLite store and on a single in-memory
\* store; the embedding provider answers every vector of at most MaxDim
\* coordinates out of Coords, the empty vector and the zero vectors
\* included, for documents and for queries alike.
Coords == {-1, 0, 1}
Vectors == UNION {[1 .. n -> Coords] : n \in 0 .. MaxDim}

CosineDom ==
    [constructions |-> {FactoryRaw("unset"), Factory(<<EMemory>>)},
     sources |-> {None},
     contents |-> {"hello"},
     upStores |-> {None},
     texts |-> {"hello"},
     limits |-> {MaxDocsCosine},
     embArgs |-> {None, Some(<<1, 0>>)},
     storeArgs |-> {None},
     upVectors |-> Vectors,
     qVectors |-> Vectors,
     embedErrors |-> {EmbedMissing},
     inflight |-> 1,
     maxDocs |-> MaxDocsCosine]

InitCosine == InitWith(CosineDom)
NextCosine == NextWith(CosineDom)
SpecCosine == InitCosine /\ [][NextCosine]_vars

\* --------------------------------------------- claims: similarity scorer
\* The score the scan e gave the document items[k], when the scan ended
\* without an error and returned the document.
ScoreGiven(e, k) ==
    e.docs[CHOOSE i \in DOMAIN e.docs : e.docs[i].id = e.items[k].id].score
Returned(e, k) == \E i \in DOMAIN e.docs : e.docs[i].id = e.items[k].id

\* What C25 says of the query vector a, the document vector b and the
\* outcome of scoring them: raised (the dimensionality error) or the score.
DegenerateCasesInOrder(a, b, raised, score) ==
    IF a = <<>> \/ b = <<>> THEN ~raised /\ score = ZeroScore
    ELSE IF Len(a) # Len(b) THEN raised
    ELSE IF NormSq(a) = 0 \/ NormSq(b) = 0 THEN ~raised /\ score = ZeroScore
    ELSE /\ ~raised
         /\ score.num = Dot(a, b)
         /\ score.den2 = NormSq(a) * NormSq(b)
         /\ score.den2 > 0

\* C25: the scorer decides its degenerate cases in this order: an empty
\* vector on either side gives 0.0 and no error, also against a non-empty
\* vector; otherwise vectors of different lengths raise the dimensionality
\* error; otherwise a vector of magnitude zero gives 0.0.
C25_DegenerateCasesInOrder ==
    \A c \in Slots :
        calls[c].op = "query" =>
            \A j \in DOMAIN calls[c].seen :
                LET e == calls[c].seen[j] IN
                /\ Len(e.items) = 1 =>
                      DegenerateCasesInOrder(e.vec, e.items[1].vec, e.err = MismatchError,
                                             IF Returned(e, 1) THEN ScoreGiven(e, 1)
                                             ELSE MismatchScore)
                /\ \A k \in DOMAIN e.items :
                      LET s == CosineSimilarity(e.vec, e.items[k].vec) IN
                      /\ DegenerateCasesInOrder(e.vec, e.items[k].vec, s.err, s)
                      /\ s.err => e.err = MismatchError
                      /\ Returned(e, k) => ScoreGiven(e, k) = s

\* C25 witness: an empty query vector was scored against a non-empty
\* document vector, the document was returned with score 0.0.
C25_Witness ==
    \E c \in Slots :
        /\ QueryOk(c)
        /\ \E j \in DOMAIN calls[c].seen :
              LET e == calls[c].seen[j] IN
              /\ e.vec = <<>>
              /\ Len(e.items) = 1
              /\ e.items[1].vec # <<>>
              /\ Returned(e, 1)
              /\ ScoreGiven(e, 1) = ZeroScore

\* C26: the scorer is symmetric: for vectors of equal length, what a scan
\* computed as cosine(query, document) is cosine(document, query).
C26_CosineSymmetric ==
    \A c \in Slots :
        calls[c].op = "query" =>
            \A j \in DOMAIN calls[c].seen :
                LET e == calls[c].seen[j] IN
                \A k \in DOMAIN e.items :
                    Len(e.items[k].vec) = Len(e.vec) =>
                        /\ CosineSimilarity(e.vec, e.items[k].vec)
                              = CosineSimilarity(e.items[k].vec, e.vec)
                        /\ Returned(e, k) =>
                              ScoreGiven(e, k) = CosineSimilarity(e.items[k].vec, e.vec)

\* C26 witness: a returned document whose vector differs from the query
\* vector in its norm and is neither orthogonal to it nor a zero vector.
C26_Witness ==
    \E c \in Slots :
        /\ QueryOk(c)
        /\ \E j \in DOMAIN calls[c].seen :
              LET e == calls[c].seen[j] IN
              /\ Len(e.items) = 1
              /\ Len(e.items[1].vec) = Len(e.vec)
              /\ Returned(e, 1)
              /\ ScoreGiven(e, 1).num # 0
              /\ NormSq(e.vec) # NormSq(e.items[1].vec)

\* ------------------------------------------- claims: composite results
\* A composite query over all members whose limit covers every stored
\* document.
QueryOverAll(c) ==
    /\ IsComposite /\ QueryOk(c)
    /\ ~Truthy(calls[c].stores)
    /\ calls[c].limit >= TotalDocs(docs)

AllIssuedReturned(c) ==
    \A o \in DOMAIN objs : \A k \in DOMAIN issued[o] :
        \E i \in DOMAIN calls[c].res.val :
            /\ calls[c].res.val[i].id = issued[o][k].id
            /\ calls[c].res.val[i].content = issued[o][k].content
            /\ calls[c].res.val[i].source = issued[o][k].source

\* C27 (as claimed): every document a composite upsert stored, with or
\* without a `store` argument, is returned by a later composite query over
\* all members with a limit of at least the number of stored documents,
\* under the qualified id the upsert returned.
C27_UpsertedIsReturned ==
    \A c \in Slots : QueryOverAll(c) => AllIssuedReturned(c)

\* The same statement for the composites whose stores have pairwise
\* distinct names: there it holds.
C27_UpsertedIsReturnedDistinctNames ==
    \A c \in Slots :
        (QueryOverAll(c) /\ \A i, j \in DOMAIN objs : i # j => objs[i].name # objs[j].name)
            => AllIssuedReturned(c)

\* C28 (as claimed): no two results of a composite query have the same
\* qualified id, whatever the `stores` argument, also when it names a member
\* more than once.
C28_ResultsDistinct ==
    \A c \in Slots :
        (IsComposite /\ QueryOk(c)) =>
            \A i, j \in DOMAIN calls[c].res.val :
                i # j => calls[c].res.val[i].id # calls[c].res.val[j].id

\* The same statement for the `stores` arguments that name no member twice:
\* there it holds.
C28_ResultsDistinctNoRepeat ==
    \A c \in Slots :
        (/\ IsComposite /\ QueryOk(c)
         /\ calls[c].stores.some => NoRepeat(calls[c].stores.val)) =>
            \A i, j \in DOMAIN calls[c].res.val :
                i # j => calls[c].res.val[i].id # calls[c].res.val[j].id

\* ------------------------------------------- specification: fair scheduling
\* Up to MaxInFlight calls in flight on the composite of the tests and on a
\* single SQLite store, at most MaxDocsLive documents.
LiveDom ==
    [constructions |-> {AlphaBeta, FactoryRaw("unset")},
     sources |-> {None},
     contents |-> {"hello"},
     upStores |-> {None, Some(Beta)},
     texts |-> {"hello"},
     limits |-> {MaxLimit},
     embArgs |-> {None, Some(<<1, 0>>)},
     storeArgs |-> {None},
     upVectors |-> {<<1, 0>>},
     qVectors |-> {<<1, 0>>},
     embedErrors |-> {EmbedMissing},
     inflight |-> MaxInFlight,
     maxDocs |-> MaxDocsLive]

InitLive == InitWith(LiveDom)
NextLive == NextWith(LiveDom)

\* The claim's assumptions: every embedding call returns or fails in the
\* end and the event loop and the worker threads keep running what is ready
\* (of these steps a call has at most one enabled at a time); a worker
\* thread that waits for a lock that is free again and again gets it.
\* FetchResume(c) is enabled exactly when call c is at fetch_ret and is the
\* only step that leaves it, so weak fairness of FetchResume(c) is written
\* as: call c is not at fetch_ret forever.
Fairness ==
    \A c \in Slots :
        /\ WF_vars(\/ EmbedReturn(c, LiveDom) \/ EmbedFail(c, LiveDom)
                   \/ InsertExec(c) \/ InsertResume(c)
                   \/ FetchExec(c))
        /\ []<>(calls[c].pc # "fetch_ret")
        /\ SF_vars(InsertAcquire(c) \/ FetchAcquire(c))

SpecLive == InitLive /\ [][NextLive]_vars /\ Fairness

\* C29: under fair scheduling every upsert and query call in flight on a
\* leaf store or on the composite completes in the end, with its result or
\* its error: no call waits for a store lock forever.
C29_EveryCallCompletes ==
    \A c \in Slots : (calls[c].op # "idle") ~> (calls[c].pc = "done")

\* C29 witness: an upsert waits for the lock of a SQLite store that the scan
\* of a query holds.
C29_Witness ==
    \E a, b \in Slots :
        /\ calls[a].op = "upsert" /\ calls[a].pc = "ins_wait"
        /\ calls[b].op = "query" /\ calls[b].pc = "fetch_in"
        /\ calls[a].tgt = calls[b].tgt
        /\ lock[calls[a].tgt] = b

\* ------------------------------------------------ claims: the server tools
\* The `store` field of the payload of rag_upsert and rag_import (the two
\* tools compute it with the same lines): the `store` argument when it is
\* truthy, else what stands before the first ':' of the returned id, else
\* the `name` attribute of the top-level store.
ResolvedStore(store, docId) ==
    IF Truthy(store) THEN Some(store.val)
    ELSE IF HasColon(docId) THEN Some(BeforeFirstColon(docId))
    ELSE IF top.kind = "leaf" THEN Some(objs[top.obj].name)
    ELSE Some(<<"composite">>)

\* C30 (as claimed): the `store` value reported by rag_upsert and rag_import
\* for a successful call is the name of the store that holds the newly
\* inserted document, for a single leaf store and for a composite, and for
\* every `store` argument.
C30_ReportedStoreHoldsDocument ==
    \A c \in Slots :
        UpsertOk(c) =>
            \A o \in DOMAIN objs :
                docs[o] # calls[c].pre[o] =>
                    ResolvedStore(calls[c].store, calls[c].res.val) = Some(objs[o].name)

\* The same statement without the two cases that break it: a truthy `store`
\* argument given to a single leaf store, which ignores it, and a composite
\* with a member whose name holds a ':'.  There it holds.
C30_ReportedStoreHoldsDocumentElsewhere ==
    \/ top.kind = "leaf" /\ \E c \in Slots : Truthy(calls[c].store)
    \/ IsComposite /\ \E o \in DOMAIN objs : HasColon(objs[o].name)
    \/ C30_ReportedStoreHoldsDocument

=============================================================================
